---- MODULE Spec2Model ----
(***************************************************************************)
(* State-machine model of the quiz/exam runner component QuizExamApp       *)
(* (src/src/App.tsx): React state, the FileReader completions started by   *)
(* handleFileUpload, the click handlers, and the screen the render         *)
(* function selects.                                                       *)
(***************************************************************************)
EXTENDS Integers, Sequences, FiniteSets, TLC

\* Longest array an uploaded file holds.
MaxLen == 2
\* Longest question set calculateResults is applied to on its own.
MaxScoreLen == 3
\* Most FileReader reads in flight at once.
MaxPending == 2
\* Largest score, in percent, getScoreColor is applied to on its own.
MaxPercent == 100

VARIABLES
    questions,        \* useState<Question[]>([])            (line 18)
    currentQuestion,  \* useState(0)                         (line 19)
    userAnswers,      \* useState<Record<number, number>>({}) (line 20)
    showResults,      \* useState(false)                     (line 21)
    examStarted,      \* useState(false)                     (line 22)
    uploadError,      \* useState("")                        (line 23)
    consoleError,     \* the error last passed to console.error (line 64)
    pending,          \* FileReaders whose readAsText has not completed;
                      \* pending[i] is TRUE when a later read was started
    results,          \* `const results = calculateResults()` of the render
    scoreColor,       \* the call getScoreColor(results.score) of the render:
                      \* its argument and the class name it returns
    last              \* the handler that ran last, and the phase it ran in

vars == <<questions, currentQuestion, userAnswers, showResults, examStarted,
          uploadError, consoleError, pending, results, scoreColor, last>>

\* The session state proper (everything but the message, log and bookkeeping).
session == <<questions, currentQuestion, userAnswers, showResults, examStarted>>

-----------------------------------------------------------------------------
(* JavaScript values as they come out of JSON.parse.  val is the length of *)
(* a string or array and the value of a number.                            *)

Str(n) == [type |-> "string", val |-> n]
Num(n) == [type |-> "number", val |-> n]
Arr(n) == [type |-> "array", val |-> n]
Undef == [type |-> "undefined", val |-> 0]

\* JavaScript truthiness, as `!v` tests it.
Truthy(v) ==
    CASE v.type \in {"undefined", "null"} -> FALSE
      [] v.type \in {"string", "number"} -> v.val # 0
      [] OTHER -> TRUE

\* One element of the uploaded array: an object with the Question fields.
Obj(q, c, a) == [type |-> "object", question |-> q, choices |-> c, answer |-> a]

\* Well-formed questions, of two choices each: answer 0 is a choice index,
\* answer 2 is past the last choice (the validation does not compare them).
GoodElems == {Obj(Str(1), Arr(2), Num(0)), Obj(Str(1), Arr(2), Num(2))}
\* Malformed records: "" as question, a string as choices, "1" as answer.
BadQuestion == Obj(Str(0), Arr(2), Num(0))
BadChoices == Obj(Str(1), Str(1), Num(0))
BadAnswer == Obj(Str(1), Arr(2), Str(1))
Elems == GoodElems \cup {BadQuestion, BadChoices, BadAnswer}

SeqsUpTo(S, n) == UNION {[1..k -> S] : k \in 0..n}

\* File contents: text that is not JSON, JSON that is no array, JSON arrays.
NotJson == [wellFormed |-> FALSE, type |-> "none", items |-> <<>>]
JsonObject == [wellFormed |-> TRUE, type |-> "object", items |-> <<>>]
JsonArray(items) == [wellFormed |-> TRUE, type |-> "array", items |-> items]
Texts == {NotJson, JsonObject} \cup {JsonArray(s) : s \in SeqsUpTo(Elems, MaxLen)}

-----------------------------------------------------------------------------
(* reader.onload: parsing and validation                                   *)

NoError == [kind |-> "none", index |-> -1]
SyntaxError == [kind |-> "SyntaxError", index |-> -1]
NotArrayError == [kind |-> "JSON must be an array of questions", index |-> -1]
StructureError(i) == [kind |-> "Invalid question structure at index", index |-> i]

\* The condition of the `if` inside forEach.
InvalidQuestion(q) ==
    \/ ~Truthy(q.question)
    \/ ~Truthy(q.choices)
    \/ q.choices.type # "array"
    \/ q.answer.type # "number"

\* forEachCheck that goes through the whole array and reports the last
\* invalid element instead of stopping at the first.
RECURSIVE forEachCheckLast(_, _)
forEachCheckLast(items, i) ==
    IF i > Len(items) THEN NoError
    ELSE IF forEachCheckLast(items, i + 1) # NoError
         THEN forEachCheckLast(items, i + 1)
    ELSE IF InvalidQuestion(items[i]) THEN StructureError(i - 1)
    ELSE NoError

\* jsonData.forEach((q, index) => ...): the error thrown, scanning from
\* position i (1-based here, index i-1 in the source); NoError when none is.
RECURSIVE forEachCheck(_, _)
forEachCheck(items, i) ==
    IF i > Len(items) THEN NoError
    ELSE IF InvalidQuestion(items[i]) THEN StructureError(i - 1)
    ELSE forEachCheck(items, i + 1)

\* The try block of reader.onload up to the state updates: the error it
\* throws on `text` (NoError when none) and the jsonData it goes on with.
TryBlock(text) ==
    IF ~text.wellFormed THEN [error |-> SyntaxError, jsonData |-> <<>>]
    ELSE IF text.type # "array" THEN [error |-> NotArrayError, jsonData |-> <<>>]
    ELSE IF forEachCheck(text.items, 1) # NoError
         THEN [error |-> forEachCheck(text.items, 1), jsonData |-> <<>>]
    ELSE [error |-> NoError, jsonData |-> text.items]

\* What the try block makes of the file contents a read can deliver.
TryResults == {TryBlock(text) : text \in Texts}

-----------------------------------------------------------------------------
(* Scoring                                                                 *)

NoAnswers == [i \in {} |-> 0]
NoResults == [totalQuestions |-> -1, answeredQuestions |-> -1,
              correctAnswers |-> -1, score |-> [type |-> "none", tenths |-> -1]]

\* reduceCorrect reading a missing answer as choice 0.
RECURSIVE reduceCorrectDefaultZero(_, _, _, _)
reduceCorrectDefaultZero(qs, ua, i, acc) ==
    IF i > Len(qs) THEN acc
    ELSE reduceCorrectDefaultZero(qs, ua, i + 1,
            acc + (IF qs[i].answer = Num(IF (i - 1) \in DOMAIN ua THEN ua[i - 1] ELSE 0)
                   THEN 1 ELSE 0))

\* questions.reduce((acc, question, index) => acc + (userAnswers[index] ===
\* question.answer ? 1 : 0), 0), from position i on.
RECURSIVE reduceCorrect(_, _, _, _)
reduceCorrect(qs, ua, i, acc) ==
    IF i > Len(qs) THEN acc
    ELSE reduceCorrect(qs, ua, i + 1,
            acc + (IF (i - 1) \in DOMAIN ua /\ qs[i].answer = Num(ua[i - 1])
                   THEN 1 ELSE 0))

\* ((correct / total) * 100).toFixed(1): a string, held as its value in
\* tenths; toFixed rounds to nearest and takes the larger on a tie.
toFixed1(correct, total) ==
    [type |-> "string", tenths |-> (2000 * correct + total) \div (2 * total)]

calculateResults(qs, ua) ==
    LET totalQuestions == Len(qs)
        correctAnswers == reduceCorrect(qs, ua, 1, 0)
    IN  [totalQuestions |-> totalQuestions,
         answeredQuestions |-> Cardinality(DOMAIN ua),
         correctAnswers |-> correctAnswers,
         score |-> IF totalQuestions > 0
                   THEN toFixed1(correctAnswers, totalQuestions)
                   ELSE [type |-> "number", tenths |-> 0]]

\* The "Incorrect" tile of the results screen.
Incorrect(r) == r.totalQuestions - r.correctAnswers

\* A score as getScoreColor takes it: a number, or the string toFixed made,
\* held as its value in hundredths (79.99 is 7999).
ScoreArg(score) == [type |-> score.type, hundredths |-> 10 * score.tenths]

\* parseFloat of a decimal string: the number it spells.
parseFloat(score) == [type |-> "number", hundredths |-> score.hundredths]

\* getScoreColor comparing with > where the source has >=.
getScoreColorStrict(score) ==
    LET numScore == IF score.type = "string" THEN parseFloat(score) ELSE score
    IN  IF numScore.hundredths > 8000 THEN "text-green-600"
        ELSE IF numScore.hundredths > 6000 THEN "text-yellow-600"
        ELSE "text-red-600"

getScoreColor(score) ==
    LET numScore == IF score.type = "string" THEN parseFloat(score) ELSE score
    IN  IF numScore.hundredths >= 8000 THEN "text-green-600"
        ELSE IF numScore.hundredths >= 6000 THEN "text-yellow-600"
        ELSE "text-red-600"

NoScoreColor == [score |-> [type |-> "none", hundredths |-> -1], className |-> "none"]

-----------------------------------------------------------------------------
(* The render function: which screen, and so which controls, are shown     *)

PhaseOf(qs, sr, es) ==
    IF Len(qs) = 0 THEN "Empty"
    ELSE IF sr THEN "Results"
    ELSE IF ~es THEN "Ready"
    ELSE "InProgress"

Phase == PhaseOf(questions, showResults, examStarted)

\* The results screen calls calculateResults() each time it renders, and
\* getScoreColor on the score it returns.
Render ==
    /\ results' = IF PhaseOf(questions', showResults', examStarted') = "Results"
                  THEN calculateResults(questions', userAnswers')
                  ELSE NoResults
    /\ scoreColor' = IF PhaseOf(questions', showResults', examStarted') = "Results"
                     THEN [score |-> ScoreArg(results'.score),
                           className |-> getScoreColor(ScoreArg(results'.score))]
                     ELSE NoScoreColor

Partial == 0 < Cardinality(DOMAIN userAnswers)
           /\ Cardinality(DOMAIN userAnswers) < Len(questions)

\* Bookkeeping: the handler that runs, the phase it runs in and whether it
\* also ran just before; for the completion of a read, whether the answers
\* were partial and the read superseded; for a navigation and for a
\* completed read, the position before the step.
Record(op, partial, stale, position) ==
    last' = [op |-> op, phase |-> Phase, again |-> last.op = op,
             partial |-> partial, stale |-> stale, position |-> position]
Ran(op) == Record(op, FALSE, FALSE, 0)
Completed(op, stale) == Record(op, Partial, stale, currentQuestion)
Navigated(op) == Record(op, FALSE, FALSE, currentQuestion)

-----------------------------------------------------------------------------
(* Initial state: the useState initialisers, no read in flight             *)

Init ==
    /\ questions = <<>>
    /\ currentQuestion = 0
    /\ userAnswers = NoAnswers
    /\ showResults = FALSE
    /\ examStarted = FALSE
    /\ uploadError = ""
    /\ consoleError = NoError
    /\ pending = <<>>
    /\ results = NoResults
    /\ scoreColor = NoScoreColor
    /\ last = [op |-> "init", phase |-> "Empty", again |-> FALSE,
               partial |-> FALSE, stale |-> FALSE, position |-> 0]

-----------------------------------------------------------------------------
(* Handlers                                                                *)

RemoveAt(s, i) == SubSeq(s, 1, i - 1) \o SubSeq(s, i + 1, Len(s))

\* handleFileUpload with a file chosen: a new FileReader starts readAsText.
\* Every read already in flight is now superseded.
handleFileUpload ==
    /\ Len(pending) < MaxPending
    /\ pending' = Append([i \in 1..Len(pending) |-> TRUE], FALSE)
    /\ UNCHANGED <<session, uploadError, consoleError>>
    /\ Ran("handleFileUpload")
    /\ Render

\* handleFileUpload with no file chosen: `if (!file) return`.
handleFileUploadNoFile ==
    /\ UNCHANGED <<session, uploadError, consoleError, pending>>
    /\ Ran("handleFileUploadNoFile")
    /\ Render

\* InstallQuestions without setUserAnswers({}) and setCurrentQuestion(0).
InstallQuestionsKeepingAnswers(jsonData) ==
    /\ questions' = jsonData
    /\ showResults' = FALSE
    /\ examStarted' = FALSE
    /\ uploadError' = ""
    /\ UNCHANGED <<userAnswers, currentQuestion, consoleError>>

\* The state updates at the end of the try block.
InstallQuestions(jsonData) ==
    /\ questions' = jsonData
    /\ userAnswers' = NoAnswers
    /\ currentQuestion' = 0
    /\ showResults' = FALSE
    /\ examStarted' = FALSE
    /\ uploadError' = ""
    /\ UNCHANGED consoleError

\* CatchError that also drops the loaded questions.
CatchErrorClearing(error) ==
    /\ uploadError' = "Invalid JSON format. Please check your file structure."
    /\ consoleError' = error
    /\ questions' = <<>>
    /\ UNCHANGED <<currentQuestion, userAnswers, showResults, examStarted>>

\* The catch block.
CatchError(error) ==
    /\ uploadError' = "Invalid JSON format. Please check your file structure."
    /\ consoleError' = error
    /\ UNCHANGED session

\* ReaderOnload that leaves showResults and examStarted as they are.
ReaderOnloadKeepingFlags(i, try) ==
    /\ i \in 1..Len(pending)
    /\ pending' = RemoveAt(pending, i)
    /\ IF try.error = NoError
       THEN /\ questions' = try.jsonData
            /\ userAnswers' = NoAnswers
            /\ currentQuestion' = 0
            /\ uploadError' = ""
            /\ UNCHANGED <<showResults, examStarted, consoleError>>
       ELSE CatchError(try.error)
    /\ Completed("onload", pending[i])
    /\ Render

\* reader.onload of the i-th read in flight, whose try block came to `try`.
ReaderOnload(i, try) ==
    /\ i \in 1..Len(pending)
    /\ pending' = RemoveAt(pending, i)
    /\ IF try.error = NoError
       THEN InstallQuestions(try.jsonData)
       ELSE CatchError(try.error)
    /\ Completed("onload", pending[i])
    /\ Render

\* The i-th read fails: the reader has no onerror listener, nothing runs.
ReaderError(i) ==
    /\ i \in 1..Len(pending)
    /\ pending' = RemoveAt(pending, i)
    /\ UNCHANGED <<session, uploadError, consoleError>>
    /\ Completed("readError", pending[i])
    /\ Render

\* startExam setting the wrong flag.
startExamShowingResults ==
    /\ showResults' = TRUE
    /\ UNCHANGED <<questions, currentQuestion, userAnswers, examStarted,
                   uploadError, consoleError, pending>>
    /\ Ran("startExam")
    /\ Render

\* onClick of "Start Exam".
startExam ==
    /\ examStarted' = TRUE
    /\ UNCHANGED <<questions, currentQuestion, userAnswers, showResults,
                   uploadError, consoleError, pending>>
    /\ Ran("startExam")
    /\ Render

\* handleAnswerSelect keeping an answer already given for the position.
handleAnswerSelectKeepingFirst(answerIndex) ==
    /\ userAnswers' = [k \in DOMAIN userAnswers \cup {currentQuestion} |->
                          IF k \in DOMAIN userAnswers THEN userAnswers[k]
                          ELSE answerIndex]
    /\ UNCHANGED <<questions, currentQuestion, showResults, examStarted,
                   uploadError, consoleError, pending>>
    /\ Ran("handleAnswerSelect")
    /\ Render

\* handleAnswerSelect recording the answer under the next position.
handleAnswerSelectOffByOne(answerIndex) ==
    /\ userAnswers' = [k \in DOMAIN userAnswers \cup {currentQuestion + 1} |->
                          IF k = currentQuestion + 1 THEN answerIndex
                          ELSE userAnswers[k]]
    /\ UNCHANGED <<questions, currentQuestion, showResults, examStarted,
                   uploadError, consoleError, pending>>
    /\ Ran("handleAnswerSelect")
    /\ Render

handleAnswerSelect(answerIndex) ==
    /\ userAnswers' = [k \in DOMAIN userAnswers \cup {currentQuestion} |->
                          IF k = currentQuestion THEN answerIndex
                          ELSE userAnswers[k]]
    /\ UNCHANGED <<questions, currentQuestion, showResults, examStarted,
                   uploadError, consoleError, pending>>
    /\ Ran("handleAnswerSelect")
    /\ Render

\* nextQuestion with its guard one short, refusing the step onto the last
\* question.
nextQuestionStoppingShort ==
    /\ currentQuestion' = IF currentQuestion < Len(questions) - 2
                          THEN currentQuestion + 1
                          ELSE currentQuestion
    /\ UNCHANGED <<questions, userAnswers, showResults, examStarted,
                   uploadError, consoleError, pending>>
    /\ Navigated("nextQuestion")
    /\ Render

\* nextQuestion without its guard, going round to the first question.
nextQuestionWrapping ==
    /\ currentQuestion' = IF currentQuestion < Len(questions) - 1
                          THEN currentQuestion + 1
                          ELSE 0
    /\ UNCHANGED <<questions, userAnswers, showResults, examStarted,
                   uploadError, consoleError, pending>>
    /\ Navigated("nextQuestion")
    /\ Render

nextQuestion ==
    /\ currentQuestion' = IF currentQuestion < Len(questions) - 1
                          THEN currentQuestion + 1
                          ELSE currentQuestion
    /\ UNCHANGED <<questions, userAnswers, showResults, examStarted,
                   uploadError, consoleError, pending>>
    /\ Navigated("nextQuestion")
    /\ Render

prevQuestion ==
    /\ currentQuestion' = IF currentQuestion > 0
                          THEN currentQuestion - 1
                          ELSE currentQuestion
    /\ UNCHANGED <<questions, userAnswers, showResults, examStarted,
                   uploadError, consoleError, pending>>
    /\ Navigated("prevQuestion")
    /\ Render

\* finishExam refusing to finish until every question has an answer.
finishExamWhenAllAnswered ==
    /\ Cardinality(DOMAIN userAnswers) = Len(questions)
    /\ showResults' = TRUE
    /\ UNCHANGED <<questions, currentQuestion, userAnswers, examStarted,
                   uploadError, consoleError, pending>>
    /\ Ran("finishExam")
    /\ Render

finishExam ==
    /\ showResults' = TRUE
    /\ UNCHANGED <<questions, currentQuestion, userAnswers, examStarted,
                   uploadError, consoleError, pending>>
    /\ Ran("finishExam")
    /\ Render

\* restartExam without setCurrentQuestion(0).
restartExamKeepingPosition ==
    /\ userAnswers' = NoAnswers
    /\ showResults' = FALSE
    /\ examStarted' = FALSE
    /\ UNCHANGED <<questions, currentQuestion, uploadError, consoleError, pending>>
    /\ Ran("restartExam")
    /\ Render

\* restartExam that flips examStarted instead of clearing it.
restartExamToggling ==
    /\ userAnswers' = NoAnswers
    /\ currentQuestion' = 0
    /\ showResults' = FALSE
    /\ examStarted' = ~examStarted
    /\ UNCHANGED <<questions, uploadError, consoleError, pending>>
    /\ Ran("restartExam")
    /\ Render

restartExam ==
    /\ userAnswers' = NoAnswers
    /\ currentQuestion' = 0
    /\ showResults' = FALSE
    /\ examStarted' = FALSE
    /\ UNCHANGED <<questions, uploadError, consoleError, pending>>
    /\ Ran("restartExam")
    /\ Render

\* The reset leaving the two flags as they are.
uploadNewQuizKeepingFlags ==
    /\ questions' = <<>>
    /\ userAnswers' = NoAnswers
    /\ currentQuestion' = 0
    /\ UNCHANGED <<showResults, examStarted, uploadError, consoleError, pending>>
    /\ Ran("uploadNewQuiz")
    /\ Render

\* onClick of "Upload New Quiz" (the reset).
uploadNewQuiz ==
    /\ questions' = <<>>
    /\ userAnswers' = NoAnswers
    /\ currentQuestion' = 0
    /\ showResults' = FALSE
    /\ examStarted' = FALSE
    /\ UNCHANGED <<uploadError, consoleError, pending>>
    /\ Ran("uploadNewQuiz")
    /\ Render

-----------------------------------------------------------------------------
(* Events of the rendered screens: a control exists only on its screen     *)

FileChosen == Phase = "Empty" /\ handleFileUpload
FileDialogCancelled == Phase = "Empty" /\ handleFileUploadNoFile
\* A Start Exam button present on every screen.
StartClickOnEveryScreen == startExam

StartClick == Phase = "Ready" /\ startExam
\* Choice buttons passing the choice's number counted from 1.
ChoiceClickCountingFromOne(index) ==
    /\ Phase = "InProgress"
    /\ index \in 0..(questions[currentQuestion + 1].choices.val - 1)
    /\ handleAnswerSelect(index + 1)

ChoiceClick(index) ==
    /\ Phase = "InProgress"
    /\ index \in 0..(questions[currentQuestion + 1].choices.val - 1)
    /\ handleAnswerSelect(index)
PreviousClick == Phase = "InProgress" /\ currentQuestion # 0 /\ prevQuestion
NextClick ==
    /\ Phase = "InProgress"
    /\ currentQuestion # Len(questions) - 1
    /\ nextQuestion
\* A Finish button shown on every question.
FinishClickOnEveryQuestion == Phase = "InProgress" /\ finishExam

FinishClick ==
    /\ Phase = "InProgress"
    /\ currentQuestion = Len(questions) - 1
    /\ finishExam
RetakeClick == Phase = "Results" /\ restartExam
UploadNewQuizClick == Phase = "Results" /\ uploadNewQuiz

Next ==
    \/ FileChosen
    \/ FileDialogCancelled
    \/ \E i \in 1..MaxPending, try \in TryResults : ReaderOnload(i, try)
    \/ \E i \in 1..MaxPending : ReaderError(i)
    \/ StartClick
    \/ \E index \in 0..1 : ChoiceClick(index)
    \/ PreviousClick
    \/ NextClick
    \/ FinishClick
    \/ RetakeClick
    \/ UploadNewQuizClick

Spec == Init /\ [][Next]_vars

-----------------------------------------------------------------------------
(* The handlers' own guards.  The exam screen shows Next only before the   *)
(* last question and disables Previous on the first, and only the results  *)
(* screen shows Retake, so the events above never run nextQuestion or      *)
(* prevQuestion at a boundary nor restartExam twice.  Here the handlers are *)
(* also called directly, as a test of the component calls them.            *)

CallNextQuestion == Phase = "InProgress" /\ nextQuestion
CallPrevQuestion == Phase = "InProgress" /\ prevQuestion
CallRestartExam == restartExam

NextApi ==
    \/ Next
    \/ CallNextQuestion
    \/ CallPrevQuestion
    \/ CallRestartExam

SpecApi == Init /\ [][NextApi]_vars

-----------------------------------------------------------------------------
(* calculateResults as a function: every question set and answer map of    *)
(* the bounds, the answer map's keys not confined to the question indices. *)

AnswerMaps == UNION {[D -> 0..2] : D \in SUBSET (0..(MaxScoreLen - 1))}

InitScore ==
    /\ questions \in SeqsUpTo(GoodElems, MaxScoreLen)
    /\ userAnswers \in AnswerMaps
    /\ currentQuestion = 0
    /\ showResults = TRUE
    /\ examStarted = TRUE
    /\ uploadError = ""
    /\ consoleError = NoError
    /\ pending = <<>>
    /\ results = NoResults
    /\ scoreColor = NoScoreColor
    /\ last = [op |-> "init", phase |-> "Empty", again |-> FALSE,
               partial |-> FALSE, stale |-> FALSE, position |-> 0]

CallCalculateResults ==
    /\ last.op = "init"
    /\ results' = calculateResults(questions, userAnswers)
    /\ UNCHANGED <<session, uploadError, consoleError, pending, scoreColor>>
    /\ Ran("calculateResults")

SpecScore == InitScore /\ [][CallCalculateResults]_vars

-----------------------------------------------------------------------------
(* getScoreColor as a function: every score from 0 to MaxPercent in steps  *)
(* of a hundredth, as a number and as a string, each classified twice.     *)

ScoreArgs ==
    {[type |-> t, hundredths |-> h] : t \in {"number", "string"},
                                      h \in 0..(100 * MaxPercent)}

InitColor ==
    /\ questions = <<>>
    /\ userAnswers = NoAnswers
    /\ currentQuestion = 0
    /\ showResults = FALSE
    /\ examStarted = FALSE
    /\ uploadError = ""
    /\ consoleError = NoError
    /\ pending = <<>>
    /\ results = NoResults
    /\ scoreColor \in {[score |-> a, className |-> "none"] : a \in ScoreArgs}
    /\ last = [op |-> "init", phase |-> "Empty", again |-> FALSE,
               partial |-> FALSE, stale |-> FALSE, position |-> 0]

CallGetScoreColor ==
    /\ ~last.again
    /\ scoreColor' = [score |-> scoreColor.score,
                      className |-> getScoreColor(scoreColor.score)]
    /\ UNCHANGED <<session, uploadError, consoleError, pending, results>>
    /\ Ran("getScoreColor")

SpecColor == InitColor /\ [][CallGetScoreColor]_vars

-----------------------------------------------------------------------------
(* The exam screen with a user who only clicks Next and Finish: every      *)
(* state of the exam screen with no read in flight, and fairness on both.  *)

ExamAnswerMaps(qs) ==
    UNION {[D -> 0..1] : D \in SUBSET (0..(Len(qs) - 1))}

InitProgress ==
    /\ questions \in SeqsUpTo(GoodElems, MaxLen) \ {<<>>}
    /\ userAnswers \in ExamAnswerMaps(questions)
    /\ currentQuestion \in 0..(Len(questions) - 1)
    /\ showResults = FALSE
    /\ examStarted = TRUE
    /\ uploadError = ""
    /\ consoleError = NoError
    /\ pending = <<>>
    /\ results = NoResults
    /\ scoreColor = NoScoreColor
    /\ last = [op |-> "init", phase |-> "Ready", again |-> FALSE,
               partial |-> FALSE, stale |-> FALSE, position |-> 0]

NextProgress == NextClick \/ FinishClick

SpecProgress ==
    /\ InitProgress
    /\ [][NextProgress]_vars
    /\ WF_vars(NextClick)
    /\ WF_vars(FinishClick)

-----------------------------------------------------------------------------
(* Properties                                                              *)

\* A read completes with its try block coming to `try`.
OnloadStep(try) == \E i \in 1..Len(pending) : ReaderOnload(i, try)

\* C1 as stated: whenever a load whose validation succeeded completes while
\* the session is InProgress with some but not all questions answered, the
\* answers and the position are discarded, the question set is the new set
\* and the session is in Ready.
C1_ReloadLandsInReady ==
    [][\A try \in TryResults :
          (Phase = "InProgress" /\ Partial /\ try.error = NoError /\ OnloadStep(try))
          => /\ userAnswers' = NoAnswers
             /\ currentQuestion' = 0
             /\ questions' = try.jsonData
             /\ Phase' = "Ready"]_vars

\* C1 amended: such a load discards the answers and the position and installs
\* the new set; the session is then in Ready when the new set has a question
\* and in Empty when the new set is the empty array.
C1_ReloadSupersedes ==
    [][\A try \in TryResults :
          (Phase = "InProgress" /\ Partial /\ try.error = NoError /\ OnloadStep(try))
          => /\ userAnswers' = NoAnswers
             /\ currentQuestion' = 0
             /\ questions' = try.jsonData
             /\ showResults' = FALSE
             /\ examStarted' = FALSE
             /\ Phase' = IF try.jsonData = <<>> THEN "Empty" ELSE "Ready"]_vars

\* A load has just completed mid-exam over a partially answered set and the
\* session is in Ready with no answers.
C1_Witness ==
    /\ last.op = "onload" /\ last.phase = "InProgress" /\ last.partial
    /\ uploadError = ""
    /\ Phase = "Ready" /\ userAnswers = NoAnswers /\ currentQuestion = 0

\* C2: a failed upload (a read error, or a reader.onload whose try block
\* throws) changes nothing of the session: questions, answers, position,
\* started flag and results flag stay as they were, in whatever phase.
C2_FailedUploadChangesNothing ==
    [][/\ \A try \in TryResults :
             (try.error # NoError /\ OnloadStep(try)) => UNCHANGED session
       /\ (\E i \in 1..Len(pending) : ReaderError(i))
             => UNCHANGED <<session, uploadError>>]_vars

\* An upload has just failed mid-exam, with the error shown, and the loaded
\* questions and the recorded answers are still there.
C2_Witness ==
    /\ last.op = "onload" /\ last.phase = "InProgress"
    /\ uploadError # "" /\ consoleError # NoError
    /\ Phase = "InProgress" /\ userAnswers # NoAnswers

\* C3 as stated: for every question set the validation accepts, the load
\* sets the question set to it, clears the answers, resets the position and
\* leaves the session in Ready, from any phase.
C3_LoadLandsInReady ==
    [][\A try \in TryResults :
          (try.error = NoError /\ OnloadStep(try))
          => /\ questions' = try.jsonData
             /\ userAnswers' = NoAnswers
             /\ currentQuestion' = 0
             /\ Phase' = "Ready"]_vars

\* C3 amended: for every accepted question set the load sets the question
\* set to it, clears the answers and resets the position, from any phase; it
\* leaves the session in Ready when the set has a question, and in Empty
\* when the accepted array is empty.
C3_LoadInstalls ==
    [][\A try \in TryResults :
          (try.error = NoError /\ OnloadStep(try))
          => /\ questions' = try.jsonData
             /\ userAnswers' = NoAnswers
             /\ currentQuestion' = 0
             /\ (try.jsonData # <<>> => Phase' = "Ready")
             /\ (try.jsonData = <<>> => Phase' = "Empty")]_vars

\* A load has just completed over the results of a finished exam and the
\* session is in Ready.
C3_Witness ==
    /\ last.op = "onload" /\ last.phase = "Results"
    /\ uploadError = ""
    /\ Phase = "Ready" /\ userAnswers = NoAnswers /\ currentQuestion = 0

\* The malformations of a record the validation is to reject: question
\* falsy, choices not a sequence, answer not a number.
Malformed(q) ==
    \/ q.question \in {Str(0), Num(0), Undef}
    \/ q.choices.type # "array"
    \/ q.answer.type # "number"

\* The arrays whose element at position k (index k - 1) is malformed and
\* whose elements before it are not.
FirstMalformedAt ==
    {c \in Texts \X (1..MaxLen) :
        /\ c[1].type = "array"
        /\ c[2] <= Len(c[1].items)
        /\ Malformed(c[1].items[c[2]])
        /\ \A j \in 1..(c[2] - 1) : ~Malformed(c[1].items[j])}

\* What the try block makes of each of them, with the position k.
FirstMalformedOutcomes == {<<TryBlock(c[1]), c[2]>> : c \in FirstMalformedAt}

\* C4: validation is fail-fast and all-or-nothing: reading an array whose
\* elements before index k are valid and whose element k is malformed fails
\* with the error citing index k exactly, shows the upload error, and
\* installs nothing (the question set stays as it was).
C4_FailFastAllOrNothing ==
    [][\A o \in FirstMalformedOutcomes :
          OnloadStep(o[1])
          => /\ consoleError' = StructureError(o[2] - 1)
             /\ uploadError' # ""
             /\ questions' = questions]_vars

\* A read has just failed citing index 1 (element 0 was valid), and the
\* question set loaded before it is still in place.
C4_Witness ==
    /\ last.op = "onload"
    /\ consoleError = StructureError(1)
    /\ uploadError # ""
    /\ questions # <<>>

Phases == {"Empty", "Ready", "InProgress", "Results"}

\* The edges of the state machine as claimed.
ClaimedEdges ==
    {<<"Empty", "Ready">>, <<"Ready", "InProgress">>, <<"InProgress", "Results">>,
     <<"Results", "Ready">>, <<"Results", "Empty">>, <<"Ready", "Empty">>}
    \cup {<<p, "Ready">> : p \in Phases}

\* C5 as stated: every change of phase is along Empty->Ready,
\* Ready->InProgress, InProgress->Results, Results->Ready, Results->Empty,
\* Ready->Empty, or into Ready from any phase (load).
C5_OnlyClaimedEdges ==
    [][Phase' # Phase => <<Phase, Phase'>> \in ClaimedEdges]_vars

\* The edges with the operation that takes each; a load lands in Ready, or
\* in Empty when the array it installs is empty.
EdgesByOperation ==
    {<<"Ready", "startExam", "InProgress">>,
     <<"InProgress", "finishExam", "Results">>,
     <<"Results", "restartExam", "Ready">>,
     <<"Results", "uploadNewQuiz", "Empty">>,
     <<"Ready", "uploadNewQuiz", "Empty">>}
    \cup {<<p, "onload", "Ready">> : p \in Phases}
    \cup {<<p, "onload", "Empty">> : p \in Phases}

\* C5 amended: every change of phase is Empty->Ready by load,
\* Ready->InProgress by start, InProgress->Results by finish, Results->Ready
\* by restart, Results->Empty or Ready->Empty by reset, or a load from any
\* phase landing in Ready, or in Empty when the loaded array is empty.
C5_OnlyTheseEdges ==
    [][Phase' # Phase
       => /\ <<Phase, last'.op, Phase'>> \in EdgesByOperation
          /\ (last'.op = "onload" /\ Phase' = "Empty" => questions' = <<>>)]_vars

\* A load of the empty array has just taken the session from InProgress to
\* Empty.
C5_Witness ==
    /\ last.op = "onload" /\ last.phase = "InProgress"
    /\ uploadError = ""
    /\ Phase = "Empty"

\* C6: in InProgress, prevQuestion at position 0 and nextQuestion at position
\* N-1 change neither the position nor anything else of the session; at any
\* other position nextQuestion adds exactly 1 and prevQuestion subtracts
\* exactly 1, and the position never wraps around.
C6_NavigationBoundary ==
    [][Phase = "InProgress"
       => /\ last'.op = "nextQuestion"
             => /\ currentQuestion' = IF currentQuestion = Len(questions) - 1
                                      THEN currentQuestion
                                      ELSE currentQuestion + 1
                /\ UNCHANGED <<questions, userAnswers, showResults, examStarted,
                               uploadError>>
          /\ last'.op = "prevQuestion"
             => /\ currentQuestion' = IF currentQuestion = 0
                                      THEN currentQuestion
                                      ELSE currentQuestion - 1
                /\ UNCHANGED <<questions, userAnswers, showResults, examStarted,
                               uploadError>>]_vars

\* nextQuestion has just run on the last of several questions, and the
\* position is still the last.
C6_Witness ==
    /\ last.op = "nextQuestion" /\ last.phase = "InProgress"
    /\ Len(questions) > 1
    /\ last.position = Len(questions) - 1
    /\ currentQuestion = Len(questions) - 1

\* C7: restartExam keeps the question set, empties the answers and resets
\* the position; with a question set loaded the session is then in Ready;
\* and restartExam run again right after changes nothing.
C7_RestartPreservesQuestions ==
    [][last'.op = "restartExam"
       => /\ questions' = questions
          /\ userAnswers' = NoAnswers
          /\ currentQuestion' = 0
          /\ (Phase # "Empty" => Phase' = "Ready")
          /\ (last.op = "restartExam"
                => UNCHANGED <<session, uploadError, consoleError, pending, results>>)]_vars

\* restartExam has just run a second time in a row with a question set
\* loaded, and the session is in Ready with that set.
C7_Witness ==
    /\ last.op = "restartExam" /\ last.again
    /\ Phase = "Ready" /\ questions # <<>>
    /\ userAnswers = NoAnswers /\ currentQuestion = 0

\* The indices of `qs` whose recorded answer exists and is the question's.
CorrectIndices(qs, ua) ==
    {i \in 0..(Len(qs) - 1) : i \in DOMAIN ua /\ ua[i] = qs[i + 1].answer.val}

\* C8: for every question set and answer map, calculateResults yields
\* total = number of questions, answered = number of keys of the answer map,
\* correct = number of indices whose recorded answer exists and equals the
\* question's answer, incorrect = total - correct = the questions answered
\* wrongly or not at all, and score = 0 when total = 0, otherwise
\* correct / total * 100 to the nearest tenth.
C8_Summarize ==
    last.op = "calculateResults"
    => LET n == Len(questions)
           correct == CorrectIndices(questions, userAnswers)
           tenths == results.score.tenths
       IN  /\ results.totalQuestions = n
           /\ results.answeredQuestions = Cardinality(DOMAIN userAnswers)
           /\ results.correctAnswers = Cardinality(correct)
           /\ Incorrect(results) = Cardinality((0..(n - 1)) \ correct)
           /\ Incorrect(results) >= Cardinality((0..(n - 1)) \ DOMAIN userAnswers)
           /\ n = 0 => tenths = 0
           /\ n > 0 => /\ 2 * (tenths * n - 1000 * Cardinality(correct)) <= n
                        /\ 2 * (1000 * Cardinality(correct) - tenths * n) <= n

\* Three questions, only question 0 answered, and correctly: correct = 1,
\* answered = 1, incorrect = 2, total = 3, score 33.3.
C8_Witness ==
    /\ last.op = "calculateResults"
    /\ results.totalQuestions = 3
    /\ DOMAIN userAnswers = {0}
    /\ results.answeredQuestions = 1
    /\ results.correctAnswers = 1
    /\ Incorrect(results) = 2
    /\ results.score.tenths = 333

\* C9: finishing does not require all questions answered: on the last
\* question of an exam in progress Finish is enabled whatever the answers
\* recorded, and finishExam moves the session from InProgress to Results
\* leaving the question set and the answers as they are, so that every
\* unanswered question counts among the incorrect ones.
C9_FinishWithAnySubset ==
    [][/\ (Phase = "InProgress" /\ currentQuestion = Len(questions) - 1)
            => ENABLED FinishClick
       /\ last'.op = "finishExam"
            => /\ Phase = "InProgress"
               /\ Phase' = "Results"
               /\ questions' = questions
               /\ userAnswers' = userAnswers
               /\ Incorrect(results')
                    >= Cardinality((0..(Len(questions) - 1)) \ DOMAIN userAnswers)]_vars

\* An exam of several questions has just been finished with no question
\* answered, and all of them count as incorrect.
C9_Witness ==
    /\ last.op = "finishExam" /\ last.phase = "InProgress"
    /\ Phase = "Results"
    /\ Len(questions) > 1
    /\ userAnswers = NoAnswers
    /\ Incorrect(results) = Len(questions)

\* C10: the completion of a superseded read (one started before a later
\* read was) is discarded: it installs neither its question set nor its
\* error.
C10_StaleReadDiscarded ==
    [][(last'.op = "onload" /\ last'.stale)
       => UNCHANGED <<session, uploadError>>]_vars

\* The band of a score given in hundredths: high from 80, medium from 60 to
\* below 80, low below 60.
Band(hundredths) ==
    CASE hundredths >= 8000 -> "high"
      [] hundredths >= 6000 /\ hundredths < 8000 -> "medium"
      [] hundredths < 6000 -> "low"

BandClass(band) ==
    CASE band = "high" -> "text-green-600"
      [] band = "medium" -> "text-yellow-600"
      [] band = "low" -> "text-red-600"

\* C11: getScoreColor depends on the score alone, with score >= 80 high,
\* 60 <= score < 80 medium and score < 60 low, so that 79.99 is medium, 80.0
\* high, 59.99 low and 60.0 medium, whether the score comes as a number or
\* as a string; a second call with the same score gives the same band.
C11_Classify ==
    [][last'.op = "getScoreColor"
       => /\ scoreColor'.className = BandClass(Band(scoreColor.score.hundredths))
          /\ scoreColor.score.hundredths = 7999 => scoreColor'.className = BandClass("medium")
          /\ scoreColor.score.hundredths = 8000 => scoreColor'.className = BandClass("high")
          /\ scoreColor.score.hundredths = 5999 => scoreColor'.className = BandClass("low")
          /\ scoreColor.score.hundredths = 6000 => scoreColor'.className = BandClass("medium")
          /\ (last.op = "getScoreColor"
                => scoreColor'.className = scoreColor.className)]_vars

\* The string "80.0" has just been classified a second time, as high.
C11_Witness ==
    /\ last.op = "getScoreColor" /\ last.again
    /\ scoreColor.score = [type |-> "string", hundredths |-> 8000]
    /\ scoreColor.className = "text-green-600"

\* The four phases as conditions on the three underlying values.
Holds(phase) ==
    CASE phase = "Empty" -> questions = <<>>
      [] phase = "Ready" -> questions # <<>> /\ ~examStarted /\ ~showResults
      [] phase = "InProgress" -> questions # <<>> /\ examStarted /\ ~showResults
      [] phase = "Results" -> questions # <<>> /\ examStarted /\ showResults

\* C12: in every reachable state exactly one phase holds, it is the one the
\* render shows, the results flag is set only if the started flag is set, and
\* the started flag is set only if the question set is non-empty.
C12_LegalCombination ==
    /\ Cardinality({phase \in Phases : Holds(phase)}) = 1
    /\ Holds(Phase)
    /\ showResults => examStarted
    /\ examStarted => questions # <<>>

\* The reset has just taken a session with both flags set back to Empty.
C12_Witness ==
    /\ last.op = "uploadNewQuiz" /\ last.phase = "Results"
    /\ questions = <<>> /\ ~examStarted /\ ~showResults

\* C13: while InProgress the position is a question index, 0 <= position
\* <= N-1; in every state every key of the answer map is a question index of
\* the loaded set, so the number of answered questions is at most N, also in
\* the summary the results screen shows.
C13_IndexValidity ==
    /\ Phase = "InProgress"
         => currentQuestion \in 0..(Len(questions) - 1)
    /\ DOMAIN userAnswers \subseteq 0..(Len(questions) - 1)
    /\ Cardinality(DOMAIN userAnswers) <= Len(questions)
    /\ Phase = "Results"
         => results.answeredQuestions <= results.totalQuestions

\* A load has completed mid-exam while the position was past the end of the
\* set it installs: the set is shorter, the position and answers are reset.
C13_Witness ==
    /\ last.op = "onload" /\ last.phase = "InProgress"
    /\ last.position > Len(questions) - 1
    /\ Len(questions) > 0
    /\ currentQuestion = 0
    /\ userAnswers = NoAnswers

\* C14: handleAnswerSelect, nextQuestion, prevQuestion and finishExam run
\* only while the phase is InProgress, the start only while Ready and
\* restartExam only while Results; with no question set loaded none of their
\* controls exists.
C14_PhaseGating ==
    /\ last.op \in {"handleAnswerSelect", "nextQuestion", "prevQuestion",
                    "finishExam"}
         => last.phase = "InProgress"
    /\ last.op = "startExam" => last.phase = "Ready"
    /\ last.op = "restartExam" => last.phase = "Results"
    /\ questions = <<>>
         => ~ENABLED (\/ StartClick
                      \/ \E index \in 0..1 : ChoiceClick(index)
                      \/ PreviousClick
                      \/ NextClick
                      \/ FinishClick
                      \/ RetakeClick)

\* An answer has just been selected, on the exam screen.
C14_Witness ==
    /\ last.op = "handleAnswerSelect" /\ last.phase = "InProgress"
    /\ Phase = "InProgress"
    /\ currentQuestion \in DOMAIN userAnswers

\* C15: selecting choice c on the exam screen sets the answer of the current
\* position to c, whatever was recorded for it before, and leaves every
\* other answer, the position, the question set and the phase unchanged; the
\* number of answered questions grows by at most 1 and never shrinks.
C15_SelectAnswerFrame ==
    [][\A c \in 0..1 :
         ChoiceClick(c)
           => /\ Phase = "InProgress"
              /\ DOMAIN userAnswers' = DOMAIN userAnswers \cup {currentQuestion}
              /\ userAnswers'[currentQuestion] = c
              /\ \A k \in DOMAIN userAnswers \ {currentQuestion} :
                    userAnswers'[k] = userAnswers[k]
              /\ currentQuestion' = currentQuestion
              /\ questions' = questions
              /\ Phase' = Phase
              /\ Cardinality(DOMAIN userAnswers') >= Cardinality(DOMAIN userAnswers)
              /\ Cardinality(DOMAIN userAnswers')
                   <= Cardinality(DOMAIN userAnswers) + 1]_vars

\* Two answers in a row on the first question of a longer set: the second
\* replaced the first, the recorded answer is choice 1 and one question is
\* answered.
C15_Witness ==
    /\ last.op = "handleAnswerSelect" /\ last.again
    /\ Phase = "InProgress"
    /\ Len(questions) > 1
    /\ currentQuestion = 0
    /\ userAnswers = [k \in {0} |-> 1]

\* C16: the reset is available in Ready as well as in Results, and from
\* either it leads to Empty with the question set and the answers cleared and
\* the position 0.
C16_ResetFromReadyAndResults ==
    /\ Phase \in {"Ready", "Results"} => ENABLED UploadNewQuizClick
    /\ last.op = "uploadNewQuiz"
         => /\ last.phase \in {"Ready", "Results"}
            /\ Phase = "Empty"
            /\ questions = <<>>
            /\ userAnswers = NoAnswers
            /\ currentQuestion = 0

\* The questions of `qs` (1-based) whose answer is no index of their choices.
OutOfRange(qs) ==
    {i \in 1..Len(qs) : qs[i].answer.val \notin 0..(qs[i].choices.val - 1)}

\* C17: every recorded answer is a choice index of its question, so it is
\* never equal to an answer outside the choice indices, and the results
\* screen counts no such question as correct.
C17_OutOfRangeNeverCorrect ==
    /\ \A i \in DOMAIN userAnswers :
          /\ i + 1 \in 1..Len(questions)
          /\ userAnswers[i] \in 0..(questions[i + 1].choices.val - 1)
          /\ (i + 1) \in OutOfRange(questions)
               => userAnswers[i] # questions[i + 1].answer.val
    /\ Phase = "Results"
         => results.correctAnswers
              <= Len(questions) - Cardinality(OutOfRange(questions))

\* An exam whose only question has its answer past the last choice has been
\* finished with that question answered: it is not counted as correct.
C17_Witness ==
    /\ last.op = "finishExam"
    /\ Phase = "Results"
    /\ OutOfRange(questions) = {1}
    /\ 0 \in DOMAIN userAnswers
    /\ results.correctAnswers = 0

\* C18: in every reachable state whose phase is Empty or Ready no answer is
\* recorded and the position is 0, so every exam starts at question 0 with
\* no recorded answers.
C18_CleanSlate ==
    /\ Phase \in {"Empty", "Ready"}
         => userAnswers = NoAnswers /\ currentQuestion = 0
    /\ last.op = "startExam"
         => userAnswers = NoAnswers /\ currentQuestion = 0

\* An exam of several questions, finished on its last question, has been
\* restarted from the results screen: the position is back at 0 and no
\* answer is recorded.
C18_Witness ==
    /\ last.op = "restartExam" /\ last.phase = "Results"
    /\ Phase = "Ready"
    /\ Len(questions) > 1
    /\ userAnswers = NoAnswers
    /\ currentQuestion = 0

\* C19: the Finish button is enabled only on the last question, position
\* N-1, hence in every reachable state whose phase is Results the position
\* is N-1.
C19_FinishOnLastQuestion ==
    /\ ENABLED FinishClick => currentQuestion = Len(questions) - 1
    /\ Phase = "Results" => currentQuestion = Len(questions) - 1

\* An exam of several questions has just been finished: the results screen
\* is shown and the position is that of the last question.
C19_Witness ==
    /\ last.op = "finishExam"
    /\ Phase = "Results"
    /\ Len(questions) > 1
    /\ currentQuestion = Len(questions) - 1

\* C20: on the exam screen one of Next and Finish is always there to click;
\* a user who clicks nothing else, and keeps clicking (weak fairness on
\* both), takes from position p of N questions only Next steps, each adding
\* exactly 1 to the position within the same question set, until the last
\* question, that is exactly N-1-p of them; there the one step is Finish,
\* which shows the results; and the results are eventually shown.
C20_ProgressToResults ==
    /\ [](Phase = "InProgress" => ENABLED (NextClick \/ FinishClick))
    /\ [][/\ (Phase = "InProgress" /\ currentQuestion < Len(questions) - 1)
               => /\ last'.op = "nextQuestion"
                  /\ currentQuestion' = currentQuestion + 1
                  /\ questions' = questions
                  /\ Phase' = "InProgress"
          /\ (Phase = "InProgress" /\ currentQuestion = Len(questions) - 1)
               => /\ last'.op = "finishExam"
                  /\ Phase' = "Results"]_vars
    /\ \A p \in 0..(MaxLen - 1) :
          (Phase = "InProgress" /\ currentQuestion = p)
            ~> (Phase = "InProgress" /\ currentQuestion = Len(questions) - 1)
    /\ (Phase = "InProgress") ~> (Phase = "Results")

\* The results are shown after the user went from the first question of a
\* set of several to its last by Next and clicked Finish there.
C20_Witness ==
    /\ last.op = "finishExam" /\ last.phase = "InProgress"
    /\ Phase = "Results"
    /\ Len(questions) > 1
    /\ currentQuestion = Len(questions) - 1
    /\ results.totalQuestions = Len(questions)

====
